---- MODULE Spec2Model ----
(***************************************************************************)
(* Model of scripts/scrapling_bridge.py: a one-shot bridge that reads one  *)
(* JSON command on standard input, drives the browser engine               *)
(* (StealthyFetcher.fetch and the Page it hands out) through one of four   *)
(* handlers, and prints one JSON response on standard output.              *)
(*                                                                         *)
(* The engine is outside the repository.  Every call into it either        *)
(* returns or raises; what it returns (title, text, status, script value)  *)
(* and whether it runs the page_action callback are the engine's choice.   *)
(***************************************************************************)
EXTENDS Integers, Sequences, FiniteSets

----------------------------------------------------------------------------
(* Python str.  A string is kept run-length encoded: a sequence of runs    *)
(* [c |-> character, n |-> repetitions >= 1] in which neighbouring runs    *)
(* have different characters, so that two strings are equal exactly when   *)
(* their encodings are and strings of 15,000 characters stay small.        *)

\* c * n
Rep(c, n) == IF n <= 0 THEN <<>> ELSE <<[c |-> c, n |-> n]>>

\* a + b
Cat(a, b) ==
    IF a = <<>> THEN b
    ELSE IF b = <<>> THEN a
    ELSE IF a[Len(a)].c = b[1].c
         THEN SubSeq(a, 1, Len(a) - 1)
                \o <<[c |-> b[1].c, n |-> a[Len(a)].n + b[1].n]>>
                \o Tail(b)
         ELSE a \o b

\* a string literal, given character by character
RECURSIVE Lit(_)
Lit(cs) == IF cs = <<>> THEN <<>> ELSE Cat(Rep(Head(cs), 1), Lit(Tail(cs)))

\* len(t)
RECURSIVE TLen(_)
TLen(t) == IF t = <<>> THEN 0 ELSE t[1].n + TLen(Tail(t))

\* the first k characters of t, k >= 0
RECURSIVE Take(_, _)
Take(t, k) ==
    IF k <= 0 \/ t = <<>> THEN <<>>
    ELSE IF t[1].n >= k THEN Rep(t[1].c, k)
    ELSE Cat(<<t[1]>>, Take(Tail(t), k - t[1].n))

\* t[:k]: a negative k counts from the end
Slice(t, k) ==
    IF k >= 0 THEN Take(t, k)
    ELSE IF TLen(t) + k > 0 THEN Take(t, TLen(t) + k) ELSE <<>>

----------------------------------------------------------------------------
(* The string literals of the script.                                      *)

TRUNC_MARKER ==
    Lit(<<"\n", ".", ".", ".", "(", "t", "r", "u", "n", "c", "a", "t", "e", "d", ")">>)

S_Page ==
    Lit(<<"P", "a", "g", "e", ":", " ">>)

S_URL ==
    Lit(<<"\n", "U", "R", "L", ":", " ">>)

S_Status ==
    Lit(<<"\n", "S", "t", "a", "t", "u", "s", ":", " ">>)

S_Blank ==
    Lit(<<"\n", "\n">>)

S_Clicked ==
    Lit(<<"C", "l", "i", "c", "k", "e", "d", " ", "\"">>)

S_QuotePage ==
    Lit(<<"\"", "\n", "P", "a", "g", "e", ":", " ">>)

S_Filled ==
    Lit(<<"F", "i", "l", "l", "e", "d", " ", "\"">>)

S_WithValue ==
    Lit(<<"\"", " ", "w", "i", "t", "h", " ", "v", "a", "l", "u", "e", " ", "\"">>)

S_Quote ==
    Lit(<<"\"">>)

S_JsResult ==
    Lit(<<"J", "a", "v", "a", "S", "c", "r", "i", "p", "t", " ", "r", "e", "s", "u",
          "l", "t", ":", "\n">>)

S_ErrClickSelector ==
    Lit(<<"E", "r", "r", "o", "r", ":", " ", "s", "e", "l", "e", "c", "t", "o", "r",
          " ", "i", "s", " ", "r", "e", "q", "u", "i", "r", "e", "d", " ", "f", "o",
          "r", " ", "c", "l", "i", "c", "k", " ", "a", "c", "t", "i", "o", "n">>)

S_ErrFillSelector ==
    Lit(<<"E", "r", "r", "o", "r", ":", " ", "s", "e", "l", "e", "c", "t", "o", "r",
          " ", "i", "s", " ", "r", "e", "q", "u", "i", "r", "e", "d", " ", "f", "o",
          "r", " ", "f", "i", "l", "l", " ", "a", "c", "t", "i", "o", "n">>)

S_ErrFillValue ==
    Lit(<<"E", "r", "r", "o", "r", ":", " ", "v", "a", "l", "u", "e", " ", "i", "s",
          " ", "r", "e", "q", "u", "i", "r", "e", "d", " ", "f", "o", "r", " ", "f",
          "i", "l", "l", " ", "a", "c", "t", "i", "o", "n">>)

S_ErrJavascript ==
    Lit(<<"E", "r", "r", "o", "r", ":", " ", "j", "a", "v", "a", "s", "c", "r", "i",
          "p", "t", " ", "i", "s", " ", "r", "e", "q", "u", "i", "r", "e", "d", " ",
          "f", "o", "r", " ", "e", "v", "a", "l", "u", "a", "t", "e", " ", "a", "c",
          "t", "i", "o", "n">>)

S_InvalidInput ==
    Lit(<<"I", "n", "v", "a", "l", "i", "d", " ", "i", "n", "p", "u", "t", ":", " ">>)

S_ErrUrl ==
    Lit(<<"E", "r", "r", "o", "r", ":", " ", "u", "r", "l", " ", "i", "s", " ", "r",
          "e", "q", "u", "i", "r", "e", "d">>)

S_UnknownAction ==
    Lit(<<"U", "n", "k", "n", "o", "w", "n", " ", "a", "c", "t", "i", "o", "n", ":",
          " ">>)

S_ScraplingError ==
    Lit(<<"s", "c", "r", "a", "p", "l", "i", "n", "g", " ", "e", "r", "r", "o", "r",
          ":", " ">>)

S_get_content ==
    Lit(<<"g", "e", "t", "_", "c", "o", "n", "t", "e", "n", "t">>)

S_click ==
    Lit(<<"c", "l", "i", "c", "k">>)

S_fill ==
    Lit(<<"f", "i", "l", "l">>)

S_evaluate ==
    Lit(<<"e", "v", "a", "l", "u", "a", "t", "e">>)

S_None ==
    Lit(<<"N", "o", "n", "e">>)

S_null ==
    Lit(<<"n", "u", "l", "l">>)

S_true ==
    Lit(<<"t", "r", "u", "e">>)

S_True ==
    Lit(<<"T", "r", "u", "e">>)


----------------------------------------------------------------------------
(* Python values.  None, True and str are the values the command's fields  *)
(* and the script result take here; a str carries its text in v.           *)

None == [t |-> "none"]

PyTrue == [t |-> "bool"]

Str(text) == [t |-> "str", v |-> text]

\* a key the JSON object does not have
Absent == [t |-> "absent"]

\* a local variable not assigned yet
Unset == [t |-> "unset"]

\* bool(x), as "if not x" reads it
Truthy(x) ==
    CASE x.t = "none" -> FALSE
      [] x.t = "bool" -> TRUE
      [] x.t = "str" -> x.v # <<>>

\* str(x), as an f-string formats x
Format(x) ==
    CASE x.t = "none" -> S_None
      [] x.t = "bool" -> S_True
      [] x.t = "str" -> x.v

DigitChar(d) == <<"0", "1", "2", "3", "4", "5", "6", "7", "8", "9">>[d + 1]

\* str(n) of an int n >= 0
RECURSIVE IntStr(_)
IntStr(n) ==
    IF n < 10 THEN Rep(DigitChar(n), 1)
    ELSE Cat(IntStr(n \div 10), Rep(DigitChar(n % 10), 1))

\* json.dumps(x, indent=2, default=str) of a scalar; the strings here hold
\* no character that JSON escapes
JsonDumps(x) ==
    CASE x.t = "none" -> S_null
      [] x.t = "bool" -> S_true
      [] x.t = "str" -> Cat(S_Quote, Cat(x.v, S_Quote))

\* dict.get(key, default)
Get(d, key, default) == IF d[key] = Absent THEN default ELSE d[key]

----------------------------------------------------------------------------
(* truncate                                                                *)

MAX_TEXT_LENGTH == 15000

CLICK_TEXT_LIMIT == 10000

EVAL_TEXT_LIMIT == 10000

SELECTOR_TIMEOUT_MS == 10000

SETTLE_MS == 1500

\* truncate without the cut: the marker is appended to the whole text
truncate_NoCut(text, limit) ==
    IF TLen(text) > limit THEN Cat(text, TRUNC_MARKER) ELSE text

\* truncate with the comparison off by one
truncate_AtLimit(text, limit) ==
    IF TLen(text) >= limit THEN Cat(Slice(text, limit), TRUNC_MARKER) ELSE text

truncate(text, limit) ==
    IF TLen(text) > limit THEN Cat(Slice(text, limit), TRUNC_MARKER) ELSE text

----------------------------------------------------------------------------
(* The inputs and the engine's answers the model draws from.               *)

\* page texts and script results are drawn within Slack characters of each
\* truncation limit
Slack == 1

Near(limit) == {limit + d : d \in (0 - Slack)..Slack}

\* a text of n characters whose last character differs from the others
TextOfLen(n) == Cat(Rep("a", n - 1), Rep("b", IF n > 0 THEN 1 ELSE 0))

PageTexts == {TextOfLen(n) : n \in {0} \cup Near(CLICK_TEXT_LIMIT) \cup Near(MAX_TEXT_LENGTH)}

\* page.css_first("title"): None, or an element with its text
Titles == {None, Str(Lit(<<"T">>))}

Statuses == {200, 404}

\* json.dumps puts a string between two quotes: these results serialize to
\* texts within Slack of the evaluate limit
ScriptResults ==
    {None, PyTrue, Str(<<>>)} \cup {Str(TextOfLen(n - 2)) : n \in Near(EVAL_TEXT_LIMIT)}

\* str(e) of the exceptions the engine and json.loads raise
ErrorMessages == {Lit(<<"t", "i", "m", "e", "o", "u", "t">>), Lit(<<"b", "o", "o", "m">>)}

\* an exception carrying its message
Exception(msg) == [t |-> "exception", msg |-> msg]

S_bogus == Lit(<<"b", "o", "g", "u", "s">>)

FieldValues(key) ==
    CASE key = "url" -> {Absent, None, Str(<<>>), Str(Lit(<<"u">>)), PyTrue}
      [] key = "action" ->
            {Absent, None, Str(S_get_content), Str(S_click), Str(S_fill),
             Str(S_evaluate), Str(S_bogus)}
      [] key = "selector" -> {Absent, Str(<<>>), Str(Lit(<<"s">>)), PyTrue}
      [] key = "value" -> {Absent, None, Str(<<>>), Str(Lit(<<"v">>)), PyTrue}
      [] key = "javascript" -> {Absent, Str(<<>>), Str(Lit(<<"j">>))}
      [] key = "wait_for" -> {Absent, Str(<<>>), Str(Lit(<<"w">>))}

\* the JSON objects on standard input
Commands ==
    {[url |-> u, action |-> a, selector |-> s, value |-> v, javascript |-> j, wait_for |-> w] :
        u \in FieldValues("url"), a \in FieldValues("action"),
        s \in FieldValues("selector"), v \in FieldValues("value"),
        j \in FieldValues("javascript"), w \in FieldValues("wait_for")}

\* what standard input can hold: text json.loads rejects (with the decode
\* error's message), a JSON document that is no object, or a JSON object
Inputs ==
    {[kind |-> "undecodable", err |-> e] : e \in ErrorMessages}
      \cup {[kind |-> k] : k \in {"array", "string", "number", "null"}}
      \cup {[kind |-> "object", dict |-> d] : d \in Commands}

----------------------------------------------------------------------------
VARIABLES
    pc,          \* where main is
    stdin,       \* the content of standard input
    cmd,         \* main's cmd
    url, action, selector, value, javascript, wait_for,   \* main's locals
    js_result,   \* handle_evaluate's js_result
    page,        \* what the handler read from the Page that fetch returned
    exc,         \* the exception an engine call raised, or Unset
    result,      \* main's result
    stdout,      \* the lines printed on standard output
    traceback,   \* an uncaught exception's traceback went to standard error
    exit_code,   \* the process's exit status once pc = "exited"
    calls,       \* the calls made into the engine, in order
    trunc        \* a call of truncate on its own: its arguments and results

locals == <<url, action, selector, value, javascript, wait_for>>

vars ==
    <<pc, stdin, cmd, locals, js_result, page, exc, result, stdout, traceback, exit_code, calls,
      trunc>>

Init ==
    /\ pc = "start"
    /\ stdin \in Inputs
    /\ cmd = Unset
    /\ url = Unset /\ action = Unset /\ selector = Unset
    /\ value = Unset /\ javascript = Unset /\ wait_for = Unset
    /\ js_result = Unset
    /\ page = Unset
    /\ exc = Unset
    /\ result = Unset
    /\ stdout = <<>>
    /\ traceback = FALSE
    /\ exit_code = 0
    /\ calls = <<>>
    /\ trunc = Unset

----------------------------------------------------------------------------
(* The responses.                                                          *)

Success(content) == [content |-> content]

Failure(content) == [content |-> content, isError |-> TRUE]

\* the decode failure reported without isError
InvalidInputResponse_NoFlag(e) == Success(Cat(S_InvalidInput, e.msg))

InvalidInputResponse(e) == Failure(Cat(S_InvalidInput, e.msg))

UrlRequiredResponse == Failure(S_ErrUrl)

\* the unknown action reported without isError
UnknownActionResponse_NoFlag(a) == Success(Cat(S_UnknownAction, Format(a)))

UnknownActionResponse(a) == Failure(Cat(S_UnknownAction, Format(a)))

\* the engine failure reported without the exception's message
EngineErrorResponse_NoMessage(e) == Failure(S_ScraplingError)

EngineErrorResponse(e) == Failure(Cat(S_ScraplingError, e.msg))

\* title.text if title else ""
TitleText(title) == IF title = None THEN <<>> ELSE title.v

GetContentResponse(title, u, status, body) ==
    Success(Cat(S_Page, Cat(TitleText(title), Cat(S_URL, Cat(Format(u),
            Cat(S_Status, Cat(IntStr(status), Cat(S_Blank, truncate(body, MAX_TEXT_LENGTH)))))))))

ClickResponse(sel, title, u, body) ==
    Success(Cat(S_Clicked, Cat(Format(sel), Cat(S_QuotePage, Cat(TitleText(title),
            Cat(S_URL, Cat(Format(u), Cat(S_Blank, truncate(body, CLICK_TEXT_LIMIT)))))))))

FillResponse(sel, val) ==
    Success(Cat(S_Filled, Cat(Format(sel), Cat(S_WithValue, Cat(Format(val), S_Quote)))))

EvaluateResponse(r) ==
    Success(Cat(S_JsResult, truncate(JsonDumps(r), EVAL_TEXT_LIMIT)))

----------------------------------------------------------------------------
(* main, up to the dispatch.                                               *)

\* sys.exit(status), or the interpreter ending on an uncaught exception
Exit(status) == pc' = "exited" /\ exit_code' = status

\* print(json.dumps(r)): one line on standard output
PrintLine(r) == stdout' = Append(stdout, r)

\* raw = sys.stdin.read(); cmd = json.loads(raw), and the except clause
ReadStdin ==
    /\ pc = "start"
    /\ IF stdin.kind = "undecodable"
       THEN /\ PrintLine(InvalidInputResponse(Exception(stdin.err)))
            /\ Exit(1)
            /\ UNCHANGED cmd
       ELSE /\ cmd' = stdin
            /\ pc' = "loaded"
            /\ UNCHANGED <<stdout, exit_code>>
    /\ UNCHANGED <<trunc, stdin, locals, js_result, page, exc, result, traceback, calls>>

\* the six cmd.get(...) lines: a cmd that is no dict has no get, and the
\* AttributeError is raised outside every try
GetFields ==
    /\ pc = "loaded"
    /\ IF cmd.kind # "object"
       THEN /\ traceback' = TRUE
            /\ Exit(1)
            /\ UNCHANGED locals
       ELSE /\ url' = Get(cmd.dict, "url", None)
            /\ action' = Get(cmd.dict, "action", Str(S_get_content))
            /\ selector' = Get(cmd.dict, "selector", None)
            /\ value' = Get(cmd.dict, "value", None)
            /\ javascript' = Get(cmd.dict, "javascript", None)
            /\ wait_for' = Get(cmd.dict, "wait_for", None)
            /\ pc' = "check_url"
            /\ UNCHANGED <<traceback, exit_code>>
    /\ UNCHANGED <<trunc, stdin, cmd, js_result, page, exc, result, stdout, calls>>

\* the url check as "url is None": an empty url passes
CheckUrl_NoneOnly ==
    /\ pc = "check_url"
    /\ IF url = None
       THEN /\ PrintLine(UrlRequiredResponse)
            /\ Exit(1)
       ELSE /\ pc' = "dispatch"
            /\ UNCHANGED <<stdout, exit_code>>
    /\ UNCHANGED <<trunc, stdin, cmd, locals, js_result, page, exc, result, traceback, calls>>

\* if not url: print the error and sys.exit(1)
CheckUrl ==
    /\ pc = "check_url"
    /\ IF ~Truthy(url)
       THEN /\ PrintLine(UrlRequiredResponse)
            /\ Exit(1)
       ELSE /\ pc' = "dispatch"
            /\ UNCHANGED <<stdout, exit_code>>
    /\ UNCHANGED <<trunc, stdin, cmd, locals, js_result, page, exc, result, traceback, calls>>

\* the else branch falls back to get_content
HandlerOf_ElseGetContent(a) ==
    CASE a = Str(S_click) -> "handle_click"
      [] a = Str(S_fill) -> "handle_fill"
      [] a = Str(S_evaluate) -> "handle_evaluate"
      [] OTHER -> "handle_get_content"

\* the handler the if/elif chain picks, "" for the else branch
HandlerOf(a) ==
    CASE a = Str(S_get_content) -> "handle_get_content"
      [] a = Str(S_click) -> "handle_click"
      [] a = Str(S_fill) -> "handle_fill"
      [] a = Str(S_evaluate) -> "handle_evaluate"
      [] OTHER -> ""

\* the if/elif chain on action
Dispatch ==
    /\ pc = "dispatch"
    /\ IF HandlerOf(action) # ""
       THEN /\ pc' = HandlerOf(action)
            /\ UNCHANGED result
       ELSE /\ result' = UnknownActionResponse(action)
            /\ pc' = "print"
    /\ UNCHANGED <<trunc, stdin, cmd, locals, js_result, page, exc, stdout, traceback, exit_code, calls>>

----------------------------------------------------------------------------
(* The engine boundary.                                                    *)

\* a call into the engine is recorded when it is made
Call(c) == calls' = Append(calls, c)

\* the call raises: the exception travels up to main's except clause
Raise ==
    /\ \E m \in ErrorMessages : exc' = Exception(m)
    /\ pc' = "except"

FetchCall(action_name) ==
    [op |-> "fetch", url |-> url, headless |-> TRUE, network_idle |-> TRUE,
     wait_selector |-> IF action_name = "none" THEN wait_for ELSE None,
     page_action |-> action_name]

\* the page_action the pending fetch was given
PageAction == calls[Len(calls)].page_action

----------------------------------------------------------------------------
(* The handlers, up to their call of StealthyFetcher.fetch.                *)

handle_get_content ==
    /\ pc = "handle_get_content"
    /\ Call(FetchCall("none"))
    /\ pc' = "fetch"
    /\ UNCHANGED <<trunc, stdin, cmd, locals, js_result, page, exc, result, stdout, traceback, exit_code>>

\* the selector check as "selector is None": an empty selector passes
handle_click_NoneOnly ==
    /\ pc = "handle_click"
    /\ IF selector = None
       THEN /\ result' = Failure(S_ErrClickSelector)
            /\ pc' = "print"
            /\ UNCHANGED calls
       ELSE /\ Call(FetchCall("click_action"))
            /\ pc' = "fetch"
            /\ UNCHANGED result
    /\ UNCHANGED <<trunc, stdin, cmd, locals, js_result, page, exc, stdout, traceback, exit_code>>

handle_click ==
    /\ pc = "handle_click"
    /\ IF ~Truthy(selector)
       THEN /\ result' = Failure(S_ErrClickSelector)
            /\ pc' = "print"
            /\ UNCHANGED calls
       ELSE /\ Call(FetchCall("click_action"))
            /\ pc' = "fetch"
            /\ UNCHANGED result
    /\ UNCHANGED <<trunc, stdin, cmd, locals, js_result, page, exc, stdout, traceback, exit_code>>

\* the value check made before the selector check
handle_fill_ValueFirst ==
    /\ pc = "handle_fill"
    /\ IF value = None
       THEN /\ result' = Failure(S_ErrFillValue)
            /\ pc' = "print"
            /\ UNCHANGED calls
       ELSE IF ~Truthy(selector)
       THEN /\ result' = Failure(S_ErrFillSelector)
            /\ pc' = "print"
            /\ UNCHANGED calls
       ELSE /\ Call(FetchCall("fill_action"))
            /\ pc' = "fetch"
            /\ UNCHANGED result
    /\ UNCHANGED <<trunc, stdin, cmd, locals, js_result, page, exc, stdout, traceback, exit_code>>

\* the value check as "not value": an empty value is refused
handle_fill_Truthiness ==
    /\ pc = "handle_fill"
    /\ IF ~Truthy(selector)
       THEN /\ result' = Failure(S_ErrFillSelector)
            /\ pc' = "print"
            /\ UNCHANGED calls
       ELSE IF ~Truthy(value)
       THEN /\ result' = Failure(S_ErrFillValue)
            /\ pc' = "print"
            /\ UNCHANGED calls
       ELSE /\ Call(FetchCall("fill_action"))
            /\ pc' = "fetch"
            /\ UNCHANGED result
    /\ UNCHANGED <<trunc, stdin, cmd, locals, js_result, page, exc, stdout, traceback, exit_code>>

handle_fill ==
    /\ pc = "handle_fill"
    /\ IF ~Truthy(selector)
       THEN /\ result' = Failure(S_ErrFillSelector)
            /\ pc' = "print"
            /\ UNCHANGED calls
       ELSE IF value = None
       THEN /\ result' = Failure(S_ErrFillValue)
            /\ pc' = "print"
            /\ UNCHANGED calls
       ELSE /\ Call(FetchCall("fill_action"))
            /\ pc' = "fetch"
            /\ UNCHANGED result
    /\ UNCHANGED <<trunc, stdin, cmd, locals, js_result, page, exc, stdout, traceback, exit_code>>

\* the javascript check as "javascript is None": an empty script passes
handle_evaluate_NoneOnly ==
    /\ pc = "handle_evaluate"
    /\ IF javascript = None
       THEN /\ result' = Failure(S_ErrJavascript)
            /\ pc' = "print"
            /\ UNCHANGED <<calls, js_result>>
       ELSE /\ js_result' = None
            /\ Call(FetchCall("eval_action"))
            /\ pc' = "fetch"
            /\ UNCHANGED result
    /\ UNCHANGED <<trunc, stdin, cmd, locals, page, exc, stdout, traceback, exit_code>>

handle_evaluate ==
    /\ pc = "handle_evaluate"
    /\ IF ~Truthy(javascript)
       THEN /\ result' = Failure(S_ErrJavascript)
            /\ pc' = "print"
            /\ UNCHANGED <<calls, js_result>>
       ELSE /\ js_result' = None
            /\ Call(FetchCall("eval_action"))
            /\ pc' = "fetch"
            /\ UNCHANGED result
    /\ UNCHANGED <<trunc, stdin, cmd, locals, page, exc, stdout, traceback, exit_code>>

----------------------------------------------------------------------------
(* StealthyFetcher.fetch, as the handlers see it: it raises, or it loads   *)
(* the page and hands it to the page_action it was given, or, given none,  *)
(* returns the page.                                                       *)

fetch ==
    /\ pc = "fetch"
    /\ \/ Raise
       \/ /\ PageAction # "none"
          /\ pc' = PageAction
          /\ UNCHANGED exc
       \/ /\ PageAction = "none"
          /\ pc' = "fetched"
          /\ UNCHANGED exc
    /\ UNCHANGED <<trunc, stdin, cmd, locals, js_result, page, result, stdout, traceback, exit_code, calls>>

\* Nothing in the handlers makes the engine run the page_action it is given:
\* fetch may also return the page without having called it.
fetch_without_page_action ==
    /\ pc = "fetch"
    /\ PageAction # "none"
    /\ pc' = "fetched"
    /\ UNCHANGED <<trunc, stdin, cmd, locals, js_result, page, exc, result, stdout, traceback, exit_code, calls>>

\* the guard as "wait_for is not None": an empty wait_for is waited for
WaitForSelector_NotNone(next) ==
    /\ IF wait_for # None
       THEN /\ Call([op |-> "wait_for_selector", selector |-> wait_for,
                     timeout |-> SELECTOR_TIMEOUT_MS])
            /\ \/ Raise
               \/ pc' = next /\ UNCHANGED exc
       ELSE /\ pc' = next
            /\ UNCHANGED <<exc, calls>>
    /\ UNCHANGED <<trunc, stdin, cmd, locals, js_result, page, result, stdout, traceback, exit_code>>

\* if wait_for: page.wait_for_selector(wait_for, timeout=10000)
WaitForSelector(next) ==
    /\ IF Truthy(wait_for)
       THEN /\ Call([op |-> "wait_for_selector", selector |-> wait_for,
                     timeout |-> SELECTOR_TIMEOUT_MS])
            /\ \/ Raise
               \/ pc' = next /\ UNCHANGED exc
       ELSE /\ pc' = next
            /\ UNCHANGED <<exc, calls>>
    /\ UNCHANGED <<trunc, stdin, cmd, locals, js_result, page, result, stdout, traceback, exit_code>>

click_action_wait ==
    /\ pc = "click_action"
    /\ WaitForSelector("click_action_click")

\* click_action without its settle wait
click_action_click_NoSettle ==
    /\ pc = "click_action_click"
    /\ Call([op |-> "click", selector |-> selector])
    /\ \/ Raise
       \/ pc' = "page_action_done" /\ UNCHANGED exc
    /\ UNCHANGED <<trunc, stdin, cmd, locals, js_result, page, result, stdout, traceback, exit_code>>

\* page.click(selector)
click_action_click ==
    /\ pc = "click_action_click"
    /\ Call([op |-> "click", selector |-> selector])
    /\ \/ Raise
       \/ pc' = "click_action_settle" /\ UNCHANGED exc
    /\ UNCHANGED <<trunc, stdin, cmd, locals, js_result, page, result, stdout, traceback, exit_code>>

\* page.wait_for_timeout(1500); return page
click_action_settle ==
    /\ pc = "click_action_settle"
    /\ Call([op |-> "wait_for_timeout", timeout |-> SETTLE_MS])
    /\ \/ Raise
       \/ pc' = "page_action_done" /\ UNCHANGED exc
    /\ UNCHANGED <<trunc, stdin, cmd, locals, js_result, page, result, stdout, traceback, exit_code>>

fill_action_wait ==
    /\ pc = "fill_action"
    /\ WaitForSelector("fill_action_fill")

\* page.fill(selector, value); return page
fill_action_fill ==
    /\ pc = "fill_action_fill"
    /\ Call([op |-> "fill", selector |-> selector, value |-> value])
    /\ \/ Raise
       \/ pc' = "page_action_done" /\ UNCHANGED exc
    /\ UNCHANGED <<trunc, stdin, cmd, locals, js_result, page, result, stdout, traceback, exit_code>>

eval_action_wait ==
    /\ pc = "eval_action"
    /\ WaitForSelector("eval_action_evaluate")

\* js_result = page.evaluate(javascript); return page
eval_action_evaluate ==
    /\ pc = "eval_action_evaluate"
    /\ Call([op |-> "evaluate", javascript |-> javascript])
    /\ \/ Raise /\ UNCHANGED js_result
       \/ /\ \E r \in ScriptResults : js_result' = r
          /\ pc' = "page_action_done"
          /\ UNCHANGED exc
    /\ UNCHANGED <<trunc, stdin, cmd, locals, page, result, stdout, traceback, exit_code>>

\* the page_action has returned: fetch finishes and returns the page, or raises
fetch_return ==
    /\ pc = "page_action_done"
    /\ \/ Raise
       \/ pc' = "fetched" /\ UNCHANGED exc
    /\ UNCHANGED <<trunc, stdin, cmd, locals, js_result, page, result, stdout, traceback, exit_code, calls>>

----------------------------------------------------------------------------
(* The handlers, after fetch has returned.                                 *)

\* title = page.css_first("title"); body = page.get_all_text(...); page.status:
\* each call raises or answers
Extract ==
    \/ /\ Call([op |-> "css_first", selector |-> Lit(<<"t", "i", "t", "l", "e">>)])
       /\ Raise
       /\ UNCHANGED page
    \/ /\ calls' = calls \o <<[op |-> "css_first", selector |-> Lit(<<"t", "i", "t", "l", "e">>)],
                              [op |-> "get_all_text", separator |-> Lit(<<"\n">>), strip |-> TRUE]>>
       /\ \/ Raise /\ UNCHANGED page
          \/ /\ \E title \in Titles, text \in PageTexts, status \in Statuses :
                    page' = [title |-> title, text |-> text, status |-> status]
             /\ pc' = "print"
             /\ UNCHANGED exc

handle_get_content_return ==
    /\ pc = "fetched"
    /\ HandlerOf(action) = "handle_get_content"
    /\ Extract
    /\ result' = IF pc' = "print"
                 THEN GetContentResponse(page'.title, url, page'.status, page'.text)
                 ELSE result
    /\ UNCHANGED <<trunc, stdin, cmd, locals, js_result, stdout, traceback, exit_code>>

handle_click_return ==
    /\ pc = "fetched"
    /\ HandlerOf(action) = "handle_click"
    /\ Extract
    /\ result' = IF pc' = "print"
                 THEN ClickResponse(selector, page'.title, url, page'.text)
                 ELSE result
    /\ UNCHANGED <<trunc, stdin, cmd, locals, js_result, stdout, traceback, exit_code>>

handle_fill_return ==
    /\ pc = "fetched"
    /\ HandlerOf(action) = "handle_fill"
    /\ result' = FillResponse(selector, value)
    /\ pc' = "print"
    /\ UNCHANGED <<trunc, stdin, cmd, locals, js_result, page, exc, stdout, traceback, exit_code, calls>>

handle_evaluate_return ==
    /\ pc = "fetched"
    /\ HandlerOf(action) = "handle_evaluate"
    /\ result' = EvaluateResponse(js_result)
    /\ pc' = "print"
    /\ UNCHANGED <<trunc, stdin, cmd, locals, js_result, page, exc, stdout, traceback, exit_code, calls>>

----------------------------------------------------------------------------
(* main, after the dispatch.                                               *)

\* the except clause calls fetch again instead of reporting
except_clause_Retry ==
    /\ pc = "except"
    /\ Call(calls[1])
    /\ pc' = "fetch"
    /\ UNCHANGED <<trunc, stdin, cmd, locals, js_result, page, exc, result, stdout, traceback, exit_code>>

\* the reported message is not the caught exception's
except_clause_AnyMessage ==
    /\ pc = "except"
    /\ \E m \in ErrorMessages : result' = EngineErrorResponse(Exception(m))
    /\ pc' = "print"
    /\ UNCHANGED <<trunc, stdin, cmd, locals, js_result, page, exc, stdout, traceback, exit_code, calls>>

\* no except clause: the exception leaves main
except_clause_Uncaught ==
    /\ pc = "except"
    /\ traceback' = TRUE
    /\ Exit(1)
    /\ UNCHANGED <<trunc, stdin, cmd, locals, js_result, page, exc, result, stdout, calls>>

\* except Exception as e: result = {...}
except_clause ==
    /\ pc = "except"
    /\ result' = EngineErrorResponse(exc)
    /\ pc' = "print"
    /\ UNCHANGED <<trunc, stdin, cmd, locals, js_result, page, exc, stdout, traceback, exit_code, calls>>

\* print(json.dumps(result)), and main returns
print_result ==
    /\ pc = "print"
    /\ PrintLine(result)
    /\ Exit(0)
    /\ UNCHANGED <<trunc, stdin, cmd, locals, js_result, page, exc, result, traceback, calls>>

Next ==
    \/ ReadStdin
    \/ GetFields
    \/ CheckUrl
    \/ Dispatch
    \/ handle_get_content
    \/ handle_click
    \/ handle_fill
    \/ handle_evaluate
    \/ fetch
    \/ fetch_without_page_action
    \/ click_action_wait
    \/ click_action_click
    \/ click_action_settle
    \/ fill_action_wait
    \/ fill_action_fill
    \/ eval_action_wait
    \/ eval_action_evaluate
    \/ fetch_return
    \/ handle_get_content_return
    \/ handle_click_return
    \/ handle_fill_return
    \/ handle_evaluate_return
    \/ except_clause
    \/ print_result

Spec == Init /\ [][Next]_vars

\* The engine as the handlers expect it (the page_action "invoked with the
\* loaded page before fetch returns"): every step but fetch_without_page_action
NextEngineContract ==
    \/ ReadStdin
    \/ GetFields
    \/ CheckUrl
    \/ Dispatch
    \/ handle_get_content
    \/ handle_click
    \/ handle_fill
    \/ handle_evaluate
    \/ fetch
    \/ click_action_wait
    \/ click_action_click
    \/ click_action_settle
    \/ fill_action_wait
    \/ fill_action_fill
    \/ eval_action_wait
    \/ eval_action_evaluate
    \/ fetch_return
    \/ handle_get_content_return
    \/ handle_click_return
    \/ handle_fill_return
    \/ handle_evaluate_return
    \/ except_clause
    \/ print_result

SpecEngineContract == Init /\ [][NextEngineContract]_vars

----------------------------------------------------------------------------
(* truncate on its own: a text and a limit >= 0 are drawn, truncate is     *)
(* applied to them, and then once more to its own result.                  *)

MaxLen == 4

MaxLimit == 5

\* the characters of the drawn texts; the marker starts with a newline and
\* holds dots
Alphabet == {"a", ".", "\n"}

Texts == {Lit(s) : s \in UNION {[1..n -> Alphabet] : n \in 0..MaxLen}}

InitTruncate ==
    /\ pc = "truncate"
    /\ trunc \in {[text |-> t, limit |-> l, once |-> Unset, twice |-> Unset] :
                    t \in Texts, l \in 0..MaxLimit}
    /\ stdin = [kind |-> "null"]
    /\ cmd = Unset
    /\ url = Unset /\ action = Unset /\ selector = Unset
    /\ value = Unset /\ javascript = Unset /\ wait_for = Unset
    /\ js_result = Unset
    /\ page = Unset
    /\ exc = Unset
    /\ result = Unset
    /\ stdout = <<>>
    /\ traceback = FALSE
    /\ exit_code = 0
    /\ calls = <<>>

main_vars ==
    <<stdin, cmd, locals, js_result, page, exc, result, stdout, traceback, exit_code, calls>>

\* truncate(text, limit)
Truncate ==
    /\ pc = "truncate"
    /\ trunc' = [trunc EXCEPT !.once = truncate(trunc.text, trunc.limit)]
    /\ pc' = "truncated"
    /\ UNCHANGED main_vars

\* truncate(truncate(text, limit), limit)
TruncateAgain ==
    /\ pc = "truncated"
    /\ trunc' = [trunc EXCEPT !.twice = truncate(trunc.once, trunc.limit)]
    /\ pc' = "truncated_twice"
    /\ UNCHANGED main_vars

NextTruncate ==
    \/ Truncate
    \/ TruncateAgain

SpecTruncate == InitTruncate /\ [][NextTruncate]_vars

----------------------------------------------------------------------------
(* Vocabulary of the properties.                                           *)

Exited == pc = "exited"

InputIsObject == stdin.kind = "object"

\* the value main reads for a key of the command, None when the key is absent
Field(key) == Get(stdin.dict, key, None)

NonEmptyUrl == InputIsObject /\ Truthy(Field("url"))

\* the handler the command's action selects ("" when it selects none)
Handler == HandlerOf(Get(stdin.dict, "action", Str(S_get_content)))

FetchCalls == {i \in DOMAIN calls : calls[i].op = "fetch"}

EngineCalled == calls # <<>>

\* a Response: content a string, isError absent or true
IsText(t) == \A i \in DOMAIN t : t[i].n >= 1 /\ (i > 1 => t[i].c # t[i - 1].c)

IsResponse(r) ==
    /\ "content" \in DOMAIN r
    /\ IsText(r.content)
    /\ \/ DOMAIN r = {"content"}
       \/ DOMAIN r = {"content", "isError"} /\ r.isError = TRUE

IsFailure(r) == DOMAIN r = {"content", "isError"} /\ r.isError = TRUE

StartsWith(t, p) == Take(t, TLen(p)) = p

\* t without its first k characters
RECURSIVE Drop(_, _)
Drop(t, k) ==
    IF k <= 0 \/ t = <<>> THEN t
    ELSE IF t[1].n > k THEN Cat(Rep(t[1].c, t[1].n - k), Tail(t))
    ELSE Drop(Tail(t), k - t[1].n)

Contains(t, p) == \E k \in 0..TLen(t) : StartsWith(Drop(t, k), p)

----------------------------------------------------------------------------
(* C1: every run of main, whatever standard input holds and whatever the   *)
(* engine does, ends with exactly one response line on standard output.    *)
C1_ExactlyOneLine ==
    Exited => Len(stdout) = 1 /\ IsResponse(stdout[1])

(* C2: for a JSON object with a non-empty url and an action among          *)
(* get_content, click, fill, evaluate (or no action key), main prints      *)
(* exactly one response, content a string and isError absent or true, and  *)
(* exits with code 0.                                                      *)
C2_Precondition ==
    /\ NonEmptyUrl
    /\ stdin.dict.action \in
          {Absent, Str(S_get_content), Str(S_click), Str(S_fill), Str(S_evaluate)}

C2_RecognizedActionOneResponseExitZero ==
    C2_Precondition =>
        /\ ~traceback
        /\ Len(stdout) <= 1
        /\ Exited => /\ Len(stdout) = 1
                     /\ IsResponse(stdout[1])
                     /\ exit_code = 0

C2_Witness ==
    /\ Exited
    /\ C2_Precondition
    /\ stdin.dict.action = Absent
    /\ stdin.dict.value = None
    /\ exc # Unset
    /\ IsFailure(stdout[1])

(* C3: the exit code is non-zero (1) exactly when the input could not be   *)
(* decoded or url is missing or empty; every other run exits with 0.       *)
C3_UrlMissingOrEmpty == InputIsObject /\ ~Truthy(Field("url"))

C3_ExitCodeIffProtocolFatal ==
    Exited =>
        /\ exit_code \in {0, 1}
        /\ exit_code # 0 <=> (stdin.kind = "undecodable" \/ C3_UrlMissingOrEmpty)

(* C4: when standard input is not decodable, main prints a response with   *)
(* isError true and content beginning with "Invalid input", exits with a   *)
(* non-zero code, and no handler and no engine call is ever reached.       *)
C4_UndecodableInput ==
    stdin.kind = "undecodable" =>
        /\ pc \in {"start", "exited"}
        /\ ~EngineCalled
        /\ result = Unset
        /\ Exited => /\ Len(stdout) = 1
                     /\ IsFailure(stdout[1])
                     /\ StartsWith(stdout[1].content,
                                   Lit(<<"I", "n", "v", "a", "l", "i", "d", " ", "i", "n", "p", "u", "t">>))
                     /\ stdout[1].content = Cat(S_InvalidInput, stdin.err)
                     /\ exit_code # 0

C4_Witness == Exited /\ stdin.kind = "undecodable" /\ Len(stdout) = 1

(* C5: for a JSON object whose url is absent or the empty string, whatever *)
(* the action and the other fields are, main prints isError true with      *)
(* content "Error: url is required", exits non-zero, and never reaches the *)
(* dispatch, a handler or the engine.                                      *)
C5_Precondition == InputIsObject /\ stdin.dict.url \in {Absent, Str(<<>>)}

C5_UrlRequired ==
    C5_Precondition =>
        /\ pc \in {"start", "loaded", "check_url", "exited"}
        /\ ~EngineCalled
        /\ result = Unset
        /\ Exited => /\ stdout = <<[content |-> S_ErrUrl, isError |-> TRUE]>>
                     /\ exit_code # 0

C5_Witness ==
    /\ Exited
    /\ C5_Precondition
    /\ stdin.dict.url = Str(<<>>)
    /\ stdin.dict.action = Str(S_bogus)
    /\ stdin.dict.selector = Absent
    /\ Len(stdout) = 1

(* C6: for action click with a non-empty url and selector absent or empty, *)
(* the response is isError true with content containing "selector is       *)
(* required for click action", the exit code is 0, and fetch is never      *)
(* invoked.                                                                *)
C6_Precondition ==
    /\ NonEmptyUrl
    /\ stdin.dict.action = Str(S_click)
    /\ stdin.dict.selector \in {Absent, Str(<<>>)}

C6_ClickNeedsSelector ==
    C6_Precondition =>
        /\ ~EngineCalled
        /\ Exited =>
             /\ Len(stdout) = 1
             /\ IsFailure(stdout[1])
             /\ Contains(stdout[1].content,
                         Lit(<<"s", "e", "l", "e", "c", "t", "o", "r", " ", "i", "s", " ",
                               "r", "e", "q", "u", "i", "r", "e", "d", " ", "f", "o", "r", " ",
                               "c", "l", "i", "c", "k", " ", "a", "c", "t", "i", "o", "n">>))
             /\ exit_code = 0

C6_Witness ==
    Exited /\ C6_Precondition /\ stdin.dict.selector = Str(<<>>) /\ Len(stdout) = 1

(* C7: for action fill with a non-empty url, a non-empty selector and      *)
(* value the empty string, no validation error is produced: fetch is       *)
(* invoked with fill_action, fill_action fills selector with the empty     *)
(* string, and unless the engine raises the response is the confirmation   *)
(* without isError.                                                        *)
C7_Precondition ==
    /\ NonEmptyUrl
    /\ stdin.dict.action = Str(S_fill)
    /\ Truthy(Field("selector"))
    /\ stdin.dict.value = Str(<<>>)

C7_EmptyValueFills ==
    C7_Precondition =>
        /\ (result # Unset /\ IsFailure(result)) => exc # Unset
        /\ pc \in {"print", "exited"} =>
              /\ Cardinality(FetchCalls) = 1
              /\ calls[1].op = "fetch"
              /\ calls[1].page_action = "fill_action"
        /\ \A i \in DOMAIN calls :
              calls[i].op = "fill" =>
                  calls[i].selector = Field("selector") /\ calls[i].value = Str(<<>>)
        /\ pc = "page_action_done" => calls[Len(calls)].op = "fill"
        /\ (Exited /\ exc = Unset) =>
              stdout = <<[content |-> Cat(S_Filled, Cat(Format(Field("selector")),
                                          Lit(<<"\"", " ", "w", "i", "t", "h", " ", "v", "a",
                                                "l", "u", "e", " ", "\"", "\"">>)))]>>

C7_Witness ==
    /\ Exited
    /\ C7_Precondition
    /\ exc = Unset
    /\ \E i \in DOMAIN calls : calls[i].op = "fill" /\ calls[i].value = Str(<<>>)
    /\ ~IsFailure(stdout[1])

(* C8: when an engine call raises at any point of a handler (navigation,   *)
(* the page_action's wait, click, settle wait, fill or evaluate, or the    *)
(* title/text extraction after fetch), the one printed response is         *)
(* {content: "scrapling error: <message>", isError: true}, the exit code   *)
(* is 0, and no success content is printed.                                *)
C8_EngineErrorReported ==
    exc # Unset =>
        /\ pc \in {"except", "print", "exited"}
        /\ ~traceback
        /\ pc = "except" => stdout = <<>>
        /\ pc = "print" =>
              /\ stdout = <<>>
              /\ result = [content |-> Cat(S_ScraplingError, exc.msg), isError |-> TRUE]
        /\ Exited =>
              /\ stdout = <<[content |-> Cat(S_ScraplingError, exc.msg), isError |-> TRUE]>>
              /\ exit_code = 0

C8_Witness ==
    /\ Exited
    /\ exc # Unset
    /\ calls[Len(calls)].op = "evaluate"
    /\ Len(stdout) = 1

(* C9: the printed response carries isError (true) exactly on the failure  *)
(* paths - decode failure, missing url, an action's missing field, an      *)
(* unrecognized action, an engine error - and has no isError key on the    *)
(* success paths, where a handler ran its engine call to completion.       *)
C9_ValidationFails ==
    \/ Handler = "handle_click" /\ ~Truthy(Field("selector"))
    \/ Handler = "handle_fill" /\ (~Truthy(Field("selector")) \/ Field("value") = None)
    \/ Handler = "handle_evaluate" /\ ~Truthy(Field("javascript"))

C9_FailurePath ==
    \/ stdin.kind = "undecodable"
    \/ /\ InputIsObject
       /\ \/ ~Truthy(Field("url"))
          \/ Handler = ""
          \/ C9_ValidationFails
          \/ exc # Unset

C9_IsErrorExactlyOnFailure ==
    (Exited /\ Len(stdout) = 1) =>
        /\ IsResponse(stdout[1])
        /\ C9_FailurePath <=> IsFailure(stdout[1])
        /\ ~C9_FailurePath => DOMAIN stdout[1] = {"content"} /\ Cardinality(FetchCalls) = 1

C9_Witness ==
    /\ Exited
    /\ Len(stdout) = 1
    /\ ~C9_FailurePath
    /\ Handler = "handle_evaluate"
    /\ DOMAIN stdout[1] = {"content"}

(* C10: truncate(text, limit) returns text unchanged when it has at most   *)
(* limit characters, and otherwise its first limit characters followed by  *)
(* the truncation marker; get_content applies it to the page text with     *)
(* limit 15,000, click with limit 10,000 and evaluate, to the serialized   *)
(* result, with limit 10,000.                                              *)
C10_IsTruncationOf(t, text, limit) ==
    IF TLen(text) <= limit
    THEN t = text
    ELSE /\ TLen(t) = limit + TLen(TRUNC_MARKER)
         /\ Take(t, limit) = Take(text, limit)
         /\ Drop(t, limit) = TRUNC_MARKER

\* content is header followed by the truncation of text
C10_Body(content, header, text, limit) ==
    /\ StartsWith(content, header)
    /\ C10_IsTruncationOf(Drop(content, TLen(header)), text, limit)

C10_TruncationApplied ==
    (Exited /\ Len(stdout) = 1 /\ ~IsFailure(stdout[1])) =>
        CASE Handler = "handle_get_content" ->
                C10_Body(stdout[1].content,
                         Cat(S_Page, Cat(TitleText(page.title), Cat(S_URL, Cat(Format(Field("url")),
                             Cat(S_Status, Cat(IntStr(page.status), S_Blank)))))),
                         page.text, 15000)
          [] Handler = "handle_click" ->
                C10_Body(stdout[1].content,
                         Cat(S_Clicked, Cat(Format(Field("selector")), Cat(S_QuotePage,
                             Cat(TitleText(page.title), Cat(S_URL, Cat(Format(Field("url")), S_Blank)))))),
                         page.text, 10000)
          [] Handler = "handle_evaluate" ->
                C10_Body(stdout[1].content, S_JsResult, JsonDumps(js_result), 10000)
          [] OTHER -> TRUE

C10_Witness ==
    /\ Exited
    /\ Len(stdout) = 1
    /\ ~IsFailure(stdout[1])
    /\ Handler = "handle_get_content"
    /\ TLen(page.text) > 15000

(* C11: determinism.  The response payload and the exit code of a run are  *)
(* a function of the input command and of the engine's answers (the        *)
(* exception it raised, what the Page gave for title, text and status, the *)
(* value the script evaluation returned): two runs that agree on these end *)
(* with the same standard output and the same exit code.                   *)
C11_Response ==
    IF exc # Unset THEN EngineErrorResponse(exc)
    ELSE CASE Handler = "" -> UnknownActionResponse(Field("action"))
           [] Handler = "handle_get_content" ->
                 GetContentResponse(page.title, Field("url"), page.status, page.text)
           [] Handler = "handle_click" ->
                 IF ~Truthy(Field("selector")) THEN Failure(S_ErrClickSelector)
                 ELSE ClickResponse(Field("selector"), page.title, Field("url"), page.text)
           [] Handler = "handle_fill" ->
                 IF ~Truthy(Field("selector")) THEN Failure(S_ErrFillSelector)
                 ELSE IF Field("value") = None THEN Failure(S_ErrFillValue)
                 ELSE FillResponse(Field("selector"), Field("value"))
           [] Handler = "handle_evaluate" ->
                 IF ~Truthy(Field("javascript")) THEN Failure(S_ErrJavascript)
                 ELSE EvaluateResponse(js_result)

\* <<standard output, exit code>> as the input and the engine's answers fix them
C11_Outcome ==
    CASE stdin.kind = "undecodable" ->
            <<<<InvalidInputResponse(Exception(stdin.err))>>, 1>>
      [] stdin.kind \in {"array", "string", "number", "null"} -> <<<<>>, 1>>
      [] InputIsObject /\ ~Truthy(Field("url")) -> <<<<UrlRequiredResponse>>, 1>>
      [] OTHER -> <<<<C11_Response>>, 0>>

C11_Deterministic == Exited => <<stdout, exit_code>> = C11_Outcome

C11_Witness ==
    /\ Exited
    /\ InputIsObject
    /\ Handler = "handle_click"
    /\ exc = Unset
    /\ page # Unset
    /\ \E i \in DOMAIN calls : calls[i].op = "wait_for_timeout"
    /\ stdout = <<C11_Response>>

(* C12: for a JSON object with a non-empty url and an action value outside *)
(* get_content, click, fill, evaluate, the response is isError true with   *)
(* content "Unknown action: {action}", the exit code is 0 and the engine   *)
(* is never invoked; with no action key the command goes to the            *)
(* get_content handler.                                                    *)
C12_UnknownPrecondition ==
    NonEmptyUrl /\ stdin.dict.action \in {None, Str(S_bogus)}

C12_UnknownContent ==
    IF stdin.dict.action = None
    THEN Lit(<<"U", "n", "k", "n", "o", "w", "n", " ", "a", "c", "t", "i", "o", "n",
               ":", " ", "N", "o", "n", "e">>)
    ELSE Lit(<<"U", "n", "k", "n", "o", "w", "n", " ", "a", "c", "t", "i", "o", "n",
               ":", " ", "b", "o", "g", "u", "s">>)

C12_UnknownActionAndDefault ==
    /\ C12_UnknownPrecondition =>
          /\ ~EngineCalled
          /\ pc \in {"start", "loaded", "check_url", "dispatch", "print", "exited"}
          /\ Exited => /\ stdout = <<[content |-> C12_UnknownContent, isError |-> TRUE]>>
                       /\ exit_code = 0
    /\ (NonEmptyUrl /\ stdin.dict.action = Absent) =>
          /\ pc \notin {"handle_click", "handle_fill", "handle_evaluate",
                        "click_action", "fill_action", "eval_action"}
          /\ pc \notin {"start", "loaded", "check_url", "dispatch", "handle_get_content"} =>
                /\ calls[1].op = "fetch"
                /\ calls[1].page_action = "none"
                /\ calls[1].wait_selector = Field("wait_for")
          /\ (Exited /\ exc = Unset) =>
                /\ ~IsFailure(stdout[1])
                /\ StartsWith(stdout[1].content, S_Page)

C12_Witness ==
    /\ Exited
    /\ C12_UnknownPrecondition
    /\ stdin.dict.action = Str(S_bogus)
    /\ stdin.dict.selector = Str(<<>>)
    /\ Len(stdout) = 1

(* C13: for action fill with a non-empty url: with selector absent or      *)
(* empty the response is the error "selector is required for fill action"  *)
(* whatever value is; with selector non-empty and value absent or null it  *)
(* is the error "value is required for fill action"; in both cases isError *)
(* is true, the exit code is 0 and the engine is never invoked.            *)
C13_Precondition == NonEmptyUrl /\ stdin.dict.action = Str(S_fill)

C13_SelectorMissing == C13_Precondition /\ ~Truthy(Field("selector"))

C13_ValueMissing ==
    C13_Precondition /\ Truthy(Field("selector")) /\ stdin.dict.value \in {Absent, None}

C13_ErrorIs(phrase) ==
    /\ ~EngineCalled
    /\ Exited => /\ Len(stdout) = 1
                 /\ IsFailure(stdout[1])
                 /\ Contains(stdout[1].content, phrase)
                 /\ exit_code = 0

C13_FillValidation ==
    /\ C13_SelectorMissing =>
          C13_ErrorIs(Lit(<<"s", "e", "l", "e", "c", "t", "o", "r", " ", "i", "s", " ", "r", "e",
                            "q", "u", "i", "r", "e", "d", " ", "f", "o", "r", " ", "f", "i", "l",
                            "l", " ", "a", "c", "t", "i", "o", "n">>))
    /\ C13_ValueMissing =>
          C13_ErrorIs(Lit(<<"v", "a", "l", "u", "e", " ", "i", "s", " ", "r", "e", "q", "u", "i",
                            "r", "e", "d", " ", "f", "o", "r", " ", "f", "i", "l", "l", " ", "a",
                            "c", "t", "i", "o", "n">>))

C13_Witness ==
    /\ Exited
    /\ C13_SelectorMissing
    /\ stdin.dict.value = Absent
    /\ Len(stdout) = 1

(* C14: for action evaluate with a non-empty url and javascript absent or  *)
(* empty, the response is isError true with content containing "javascript *)
(* is required for evaluate action", the exit code is 0, and the engine is *)
(* never invoked: no navigation, no script execution.                      *)
C14_Precondition ==
    /\ NonEmptyUrl
    /\ stdin.dict.action = Str(S_evaluate)
    /\ stdin.dict.javascript \in {Absent, Str(<<>>)}

C14_EvaluateNeedsJavascript ==
    C14_Precondition =>
        /\ ~EngineCalled
        /\ js_result = Unset
        /\ Exited =>
             /\ Len(stdout) = 1
             /\ IsFailure(stdout[1])
             /\ Contains(stdout[1].content,
                         Lit(<<"j", "a", "v", "a", "s", "c", "r", "i", "p", "t", " ", "i", "s", " ",
                               "r", "e", "q", "u", "i", "r", "e", "d", " ", "f", "o", "r", " ", "e",
                               "v", "a", "l", "u", "a", "t", "e", " ", "a", "c", "t", "i", "o", "n">>))
             /\ exit_code = 0

C14_Witness ==
    Exited /\ C14_Precondition /\ stdin.dict.javascript = Str(<<>>) /\ Len(stdout) = 1

(* C15: in every run fetch is invoked at most once, and exactly once if    *)
(* and only if the command passed every check (a decodable object, a       *)
(* non-empty url, a recognized action and that action's required fields);  *)
(* an engine error never causes a second fetch.                            *)
C15_PassesEveryCheck ==
    /\ NonEmptyUrl
    /\ Handler # ""
    /\ ~C9_ValidationFails

C15_FetchAtMostOnce ==
    /\ Cardinality(FetchCalls) <= 1
    /\ FetchCalls # {} => C15_PassesEveryCheck
    /\ Exited => (Cardinality(FetchCalls) = 1 <=> C15_PassesEveryCheck)

C15_Witness ==
    /\ Exited
    /\ exc # Unset
    /\ Len(calls) > 1
    /\ Cardinality(FetchCalls) = 1

(* C16: in the click handler the engine calls come in a fixed order:       *)
(* fetch, wait_for_selector on wait_for (only when wait_for is given),     *)
(* click on selector, the 1.5-second settle wait, and only then the title  *)
(* and text extraction and the "Clicked ..." response; once a call has     *)
(* raised (the click in particular) no further engine call is made, so     *)
(* neither the settle wait nor the extraction happen.                      *)
C16_Precondition ==
    /\ NonEmptyUrl
    /\ stdin.dict.action = Str(S_click)
    /\ Truthy(Field("selector"))

C16_ExpectedCalls ==
    <<[op |-> "fetch", url |-> Field("url"), headless |-> TRUE, network_idle |-> TRUE,
       wait_selector |-> None, page_action |-> "click_action"]>>
      \o (IF Truthy(Field("wait_for"))
          THEN <<[op |-> "wait_for_selector", selector |-> Field("wait_for"), timeout |-> 10000]>>
          ELSE <<>>)
      \o <<[op |-> "click", selector |-> Field("selector")],
           [op |-> "wait_for_timeout", timeout |-> 1500],
           [op |-> "css_first", selector |-> Lit(<<"t", "i", "t", "l", "e">>)],
           [op |-> "get_all_text", separator |-> Lit(<<"\n">>), strip |-> TRUE]>>

IsPrefix(s, t) == Len(s) <= Len(t) /\ s = SubSeq(t, 1, Len(s))

C16_SettleDone == \E i \in DOMAIN calls : calls[i].op = "wait_for_timeout"

C16_Order ==
    C16_Precondition =>
        /\ IsPrefix(calls, C16_ExpectedCalls)
        /\ pc \in {"page_action_done", "fetched"} => C16_SettleDone
        /\ page # Unset => C16_SettleDone
        /\ (result # Unset /\ ~IsFailure(result)) =>
              /\ C16_SettleDone
              /\ calls = C16_ExpectedCalls
              /\ StartsWith(result.content, S_Clicked)

C16_NothingAfterRaise ==
    (C16_Precondition /\ exc # Unset) => (calls' = calls /\ page' = page /\ exc' = exc)

C16_ClickOrder == [](C16_Order) /\ [][C16_NothingAfterRaise]_vars

C16_Witness ==
    /\ Exited
    /\ C16_Precondition
    /\ Truthy(Field("wait_for"))
    /\ exc = Unset
    /\ calls = C16_ExpectedCalls
    /\ ~IsFailure(stdout[1])

(* C17: in fill_action and eval_action wait_for_selector is called if and  *)
(* only if wait_for is given (non-empty), with the 10-second timeout and   *)
(* right before the fill / evaluate call; if the wait raises, the fill or  *)
(* the script evaluation is never performed and the response is the        *)
(* engine-failure response.                                                *)
C17_Precondition ==
    /\ NonEmptyUrl
    /\ \/ /\ stdin.dict.action = Str(S_fill)
          /\ Truthy(Field("selector"))
          /\ Field("value") # None
       \/ /\ stdin.dict.action = Str(S_evaluate)
          /\ Truthy(Field("javascript"))

C17_IsWait(c) ==
    c = [op |-> "wait_for_selector", selector |-> Field("wait_for"), timeout |-> 10000]

C17_IsInteraction(c) ==
    IF stdin.dict.action = Str(S_fill)
    THEN c = [op |-> "fill", selector |-> Field("selector"), value |-> Field("value")]
    ELSE c = [op |-> "evaluate", javascript |-> Field("javascript")]

C17_WaitBeforeInteraction ==
    C17_Precondition =>
        /\ \A i \in DOMAIN calls :
              /\ calls[i].op = "wait_for_selector" =>
                    Truthy(Field("wait_for")) /\ i = 2 /\ C17_IsWait(calls[i])
              /\ calls[i].op \in {"fill", "evaluate"} =>
                    /\ C17_IsInteraction(calls[i])
                    /\ i = (IF Truthy(Field("wait_for")) THEN 3 ELSE 2)
                    /\ Truthy(Field("wait_for")) => C17_IsWait(calls[i - 1])
        /\ pc \in {"fill_action_fill", "eval_action_evaluate"} =>
              Len(calls) = (IF Truthy(Field("wait_for")) THEN 2 ELSE 1)
        /\ (exc # Unset /\ calls[Len(calls)].op = "wait_for_selector") =>
              /\ \A i \in DOMAIN calls : calls[i].op \notin {"fill", "evaluate"}
              /\ js_result \in {Unset, None}
              /\ pc \in {"except", "print", "exited"}
              /\ pc = "print" =>
                    result = [content |-> Cat(S_ScraplingError, exc.msg), isError |-> TRUE]
              /\ Exited =>
                    stdout = <<[content |-> Cat(S_ScraplingError, exc.msg), isError |-> TRUE]>>

C17_Witness ==
    /\ Exited
    /\ C17_Precondition
    /\ stdin.dict.action = Str(S_evaluate)
    /\ exc # Unset
    /\ calls[Len(calls)].op = "wait_for_selector"
    /\ Len(stdout) = 1

(* C18: every evaluate run that ends in a success response prints          *)
(* "JavaScript result:" followed by the serialization of the value the     *)
(* run's one page.evaluate call returned; no success response is built     *)
(* from a value that was not captured in the run, in particular not when   *)
(* fetch returned without the callback having run.                         *)
C18_EvaluateCalls == {i \in DOMAIN calls : calls[i].op = "evaluate"}

C18_SuccessOnlyFromCapturedValue ==
    (Exited /\ InputIsObject /\ NonEmptyUrl /\ Handler = "handle_evaluate"
       /\ Len(stdout) = 1 /\ ~IsFailure(stdout[1])) =>
        /\ Cardinality(C18_EvaluateCalls) = 1
        /\ js_result \in ScriptResults
        /\ stdout[1].content = Cat(S_JsResult, truncate(JsonDumps(js_result), EVAL_TEXT_LIMIT))

(* C19: for every text and every limit >= 0, truncate is idempotent,       *)
(* truncate(truncate(text, limit), limit) = truncate(text, limit), and its *)
(* result is never longer than limit plus the length of the marker.        *)
C19_TruncateIdempotentBounded ==
    /\ pc \in {"truncated", "truncated_twice"} =>
          TLen(trunc.once) <= trunc.limit + TLen(TRUNC_MARKER)
    /\ pc = "truncated_twice" => trunc.twice = trunc.once

C19_Witness ==
    /\ pc = "truncated_twice"
    /\ trunc.limit > 0
    /\ TLen(trunc.text) > trunc.limit
    /\ TLen(trunc.once) = trunc.limit + TLen(TRUNC_MARKER)
    /\ trunc.once # trunc.text

====
